---- MODULE Spec2Model ----
(***************************************************************************)
(* Model of lm/builder/adjust_counts.cc: the adjusted-count pass of the    *)
(* language-model builder (FindDifference, StatCollector, CollapseStream   *)
(* and AdjustCounts::Run).                                                 *)
(*                                                                         *)
(* Positions in a record are 1-based here: the source's begin()[i] is      *)
(* w[i + 1], and full.end() - 1 is w[Len(w)].  A pointer into a block is   *)
(* the 1-based index of the record it points at; the address just below    *)
(* the block's base is index 0.                                            *)
(*                                                                         *)
(* The float discount amounts of StatCollector::Complete are not modelled: *)
(* only counts_ is.                                                        *)
(***************************************************************************)
EXTENDS Integers, Sequences, FiniteSets, TLC

(* ------------------------------ bounds -------------------------------- *)
\* Highest model order N of a run (positions.size()).
MaxOrder == 4
\* Most records in the max-order stream of a run.
MaxRecords == 3
\* Most words (records times order) in the max-order stream of a run.
MaxCells == 9
\* Records per block handed over by the upstream stage.
BlockLen == 2
\* Most blocks and most records of the streams that exercise block layouts.
MaxLayoutBlocks == 2
MaxLayoutRecords == 3

\* The sentence-start marker <s>.
kBOS == 1
\* Vocabulary of the enumerated inputs: the marker and two ordinary words.
WordIds == {kBOS, 2, 3}
\* Vocabulary of the streams that exercise block layouts.
LayoutWordIds == {kBOS, 2}
\* Raw counts of the enumerated inputs (5 is the first count without bucket).
RawCounts == {1, 5}

(* ------------------------------ helpers ------------------------------- *)
RECURSIVE Tuples(_, _)
Tuples(S, n) ==
  IF n = 0 THEN {<<>>}
  ELSE {Append(t, x) : t \in Tuples(S, n - 1), x \in S}

Min(a, b) == IF a < b THEN a ELSE b

\* Suffix order: compare the last words first, then the ones before.
RECURSIVE SuffixLeqFrom(_, _, _)
SuffixLeqFrom(a, b, i) ==
  IF i = 0 THEN TRUE
  ELSE IF a[i] < b[i] THEN TRUE
  ELSE IF a[i] > b[i] THEN FALSE
  ELSE SuffixLeqFrom(a, b, i - 1)

SuffixLeq(a, b) == SuffixLeqFrom(a, b, Len(a))

NGrams(W, n) == {[w |-> t, c |-> c] : t \in Tuples(W, n), c \in RawCounts}

\* The stream is sorted by suffix (duplicates allowed).
IsSorted(s) == \A i \in 1..(Len(s) - 1) : SuffixLeq(s[i].w, s[i + 1].w)

\* Suffix-sorted streams of at most n records drawn from R.
SortedUpTo(R, n) == UNION {{s \in [1..k -> R] : IsSorted(s)} : k \in 0..n}

MkBlock(recs) == [mem |-> recs, valid |-> Len(recs)]

\* The stream cut into full blocks of b records, the last one possibly short.
RECURSIVE Chunk(_, _)
Chunk(s, b) ==
  IF Len(s) = 0 THEN <<>>
  ELSE IF Len(s) <= b THEN <<MkBlock(s)>>
  ELSE <<MkBlock(SubSeq(s, 1, b))>> \o Chunk(SubSeq(s, b + 1, Len(s)), b)

\* Every way to cut the stream into exactly nb blocks, empty blocks included.
RECURSIVE Layouts(_, _)
Layouts(s, nb) ==
  IF nb = 0 THEN (IF Len(s) = 0 THEN {<<>>} ELSE {})
  ELSE UNION {{<<MkBlock(SubSeq(s, 1, i))>> \o rest
               : rest \in Layouts(SubSeq(s, i + 1, Len(s)), nb - 1)}
              : i \in 0..Len(s)}

RECURSIVE Flatten(_)
Flatten(bs) ==
  IF Len(bs) = 0 THEN <<>> ELSE bs[1] \o Flatten(Tail(bs))

RECURSIVE SeqSum(_)
SeqSum(s) == IF Len(s) = 0 THEN 0 ELSE s[1] + SeqSum(Tail(s))

\* Chains of an order-n run: the stream in blocks of BlockLen.
RunChains(n) ==
  {Chunk(s, BlockLen)
   : s \in SortedUpTo(NGrams(WordIds, n), Min(MaxRecords, MaxCells \div n))}

\* Order-3 chains that exercise block layouts: every cut of a stream over the
\* small vocabulary into blocks, empty blocks included (raw counts all 1).
LayoutChains ==
  UNION {UNION {Layouts(s, nb) : nb \in 0..MaxLayoutBlocks}
         : s \in SortedUpTo({[w |-> t, c |-> 1] : t \in Tuples(LayoutWordIds, 3)},
                            MaxLayoutRecords)}

(* ------------------------------- state -------------------------------- *)
VARIABLES
  order,        \* positions.size(): the model order N
  input,        \* history: the max-order chain as handed to Run
  full,         \* the max-order stream: chain (blocks in memory), block_,
                \* current_, copy_from_, and out, the events sent downstream
  streams,      \* lower-order streams 1..N-1: the record under each cursor
  lower_valid,  \* index of the highest open lower-order stream
  chan,         \* events published on the lower-order channels 1..N-1
  stats,        \* StatCollector::orders_
  counts_,      \* AdjustCounts::counts_, filled by Complete
  pc,           \* position in AdjustCounts::Run
  yielded,      \* history: records read through operator* / operator->
  ev,           \* history: calls made by Run, in order
  args,         \* the two records of a direct call of FindDifference
  ret           \* what that call returned (0: not called)

vars == <<order, input, full, streams, lower_valid, chan, stats, counts_, pc,
          yielded, ev, args, ret>>

\* A slot no record has been written to.
NoRecord == [w |-> <<>>, c |-> 0, raw |-> 0]

Poisoned == [eos |-> TRUE, w |-> <<>>, c |-> 0, raw |-> 0]

(* --------------------------- FindDifference --------------------------- *)
RECURSIVE FindDifferenceFrom(_, _, _, _)
FindDifferenceFrom(fw, lw, cur_word, pre_word) ==
  IF pre_word >= 1 /\ lw[pre_word] = fw[cur_word]
  THEN FindDifferenceFrom(fw, lw, cur_word - 1, pre_word - 1)
  ELSE cur_word

\* Mutant: pre_word > lower_last.begin(), the first word of lw is never compared.
RECURSIVE FindDifferenceStrictFrom(_, _, _, _)
FindDifferenceStrictFrom(fw, lw, cur_word, pre_word) ==
  IF pre_word > 1 /\ lw[pre_word] = fw[cur_word]
  THEN FindDifferenceStrictFrom(fw, lw, cur_word - 1, pre_word - 1)
  ELSE cur_word

FindDifference_Strict(fw, lw) == FindDifferenceStrictFrom(fw, lw, Len(fw), Len(lw))

\* Position in fw of the last word that differs from lw, scanning backward.
\* Mutant: on a match over the whole lower record, return the first word.
FindDifference_FirstWord(fw, lw) ==
  LET p == FindDifferenceFrom(fw, lw, Len(fw), Len(lw))
  IN IF Len(fw) - p = Len(lw) THEN 1 ELSE p

FindDifference(fw, lw) == FindDifferenceFrom(fw, lw, Len(fw), Len(lw))

(* ---------------------------- StatCollector --------------------------- *)
\* Mutant: the memset clears order - 1 entries; the last one keeps what the
\* memory held (here a count of 1).
NewStats_ShortMemset(n) ==
  [i \in 1..n |-> [n |-> <<0, 0, 0, 0>>, count |-> IF i = n THEN 1 ELSE 0, oob |-> 0]]

NewStats(n) == [i \in 1..n |-> [n |-> <<0, 0, 0, 0>>, count |-> 0, oob |-> 0]]

\* Mutant: ++stat.n[count], the bucket after the right one.
StatAdd_WrongBucket(st, k, count) ==
  [st EXCEPT ![k] =
     [count |-> @.count + 1,
      n |-> IF count < 4 THEN [@.n EXCEPT ![count + 1] = @ + 1] ELSE @.n,
      oob |-> IF count = 4 THEN @.oob + 1 ELSE @.oob]]

\* n[count - 1] with count = 0 is a write outside the array: counted in oob.
StatAdd(st, k, count) ==
  [st EXCEPT ![k] =
     [count |-> @.count + 1,
      n |-> IF count >= 1 /\ count < 5
            THEN [@.n EXCEPT ![count] = @ + 1] ELSE @.n,
      oob |-> IF count < 1 THEN @.oob + 1 ELSE @.oob]]

StatAddFull(st, count) == StatAdd(st, Len(st), count)

Complete(st) == [i \in 1..Len(st) |-> st[i].count]

(* ------------------------- util::stream::Link ------------------------- *)
LinkValid(f) == f.block_ <= Len(f.chain)

\* ++block_: hand the current block on with its valid region and take the
\* next one; an end-of-data block is passed on as it is read.
LinkNext(f) ==
  LET b == f.chain[f.block_]
      sentBlock == Append(f.out, [eos |-> FALSE, recs |-> SubSeq(b.mem, 1, b.valid)])
  IN [f EXCEPT !.block_ = @ + 1,
               !.out = IF f.block_ + 1 > Len(f.chain)
                       THEN Append(sentBlock, [eos |-> TRUE, recs |-> <<>>])
                       ELSE sentBlock]

LinkInit(f) ==
  [f EXCEPT !.block_ = 1,
            !.out = IF Len(f.chain) = 0
                    THEN Append(@, [eos |-> TRUE, recs |-> <<>>]) ELSE @]

(* ---------------------------- CollapseStream -------------------------- *)
\* Mutant: begin()[0] is tested for the marker instead of begin()[1].
RECURSIVE ScanCopyFrom_FirstWord(_, _, _)
ScanCopyFrom_FirstWord(mem, cf, base) ==
  IF cf >= base
  THEN IF mem[cf].w[1] # kBOS THEN cf ELSE ScanCopyFrom_FirstWord(mem, cf - 1, base)
  ELSE cf

RECURSIVE ScanCopyFrom(_, _, _)
ScanCopyFrom(mem, cf, base) ==
  IF cf >= base
  THEN IF mem[cf].w[2] # kBOS THEN cf ELSE ScanCopyFrom(mem, cf - 1, base)
  ELSE cf

\* Find last without bos.
UpdateCopyFrom(f) ==
  [f EXCEPT !.copy_from_ =
     ScanCopyFrom(f.chain[f.block_].mem, f.copy_from_ - 1, f.current_)]

RECURSIVE StartBlock(_)
StartBlock(f) ==
  IF ~LinkValid(f) THEN f
  ELSE IF f.chain[f.block_].valid # 0
  THEN UpdateCopyFrom([f EXCEPT !.current_ = 1,
                                !.copy_from_ = f.chain[f.block_].valid + 1])
  ELSE StartBlock(LinkNext(f))

CollapseStreamInit(f) == StartBlock(LinkInit(f))

\* operator* and operator->
Deref(f) == f.chain[f.block_].mem[f.current_]

\* Mutant: the block is left as soon as the cursor has passed copy_from_.
CollapseNext_StopAtCopyFrom(f) ==
  LET b == f.chain[f.block_]
      f1 == IF b.mem[f.current_].w[2] = kBOS /\ f.current_ < f.copy_from_
            THEN UpdateCopyFrom(
                   [f EXCEPT !.chain[f.block_].mem[f.current_] = b.mem[f.copy_from_]])
            ELSE f
      f2 == [f1 EXCEPT !.current_ = @ + 1]
  IN IF f2.current_ = b.valid + 1 \/ f2.current_ > f2.copy_from_
     THEN StartBlock(LinkNext([f2 EXCEPT !.chain[f.block_].valid = f2.copy_from_]))
     ELSE f2

\* Mutant: UpdateCopyFrom is not called after the overwrite.
CollapseNext_NoUpdate(f) ==
  LET b == f.chain[f.block_]
      f1 == IF b.mem[f.current_].w[2] = kBOS /\ f.current_ < f.copy_from_
            THEN [f EXCEPT !.chain[f.block_].mem[f.current_] = b.mem[f.copy_from_]]
            ELSE f
      f2 == [f1 EXCEPT !.current_ = @ + 1]
  IN IF f2.current_ = b.valid + 1
     THEN StartBlock(LinkNext([f2 EXCEPT !.chain[f.block_].valid = f2.copy_from_]))
     ELSE f2

\* Mutant: the record is replaced on the way in, after NextInMemory.
CollapseNext_OnTheWayIn(f) ==
  LET b == f.chain[f.block_]
      f2 == [f EXCEPT !.current_ = @ + 1]
  IN IF f2.current_ = b.valid + 1
     THEN StartBlock(LinkNext([f2 EXCEPT !.chain[f.block_].valid = f2.copy_from_]))
     ELSE IF b.mem[f2.current_].w[2] = kBOS /\ f2.current_ < f2.copy_from_
     THEN UpdateCopyFrom(
            [f2 EXCEPT !.chain[f.block_].mem[f2.current_] = b.mem[f2.copy_from_]])
     ELSE f2

\* operator++
CollapseNext(f) ==
  LET b == f.chain[f.block_]
      f1 == IF b.mem[f.current_].w[2] = kBOS /\ f.current_ < f.copy_from_
            THEN UpdateCopyFrom(
                   [f EXCEPT !.chain[f.block_].mem[f.current_] = b.mem[f.copy_from_]])
            ELSE f
      f2 == [f1 EXCEPT !.current_ = @ + 1]
  IN IF f2.current_ = b.valid + 1
     THEN StartBlock(LinkNext([f2 EXCEPT !.chain[f.block_].valid = f2.copy_from_]))
     ELSE f2

(* ----------------------------- NGramStream ---------------------------- *)
RECURSIVE NGramStartBlock(_)
NGramStartBlock(f) ==
  IF ~LinkValid(f) THEN f
  ELSE IF f.chain[f.block_].valid # 0 THEN [f EXCEPT !.current_ = 1]
  ELSE NGramStartBlock(LinkNext(f))

NGramStreamInit(f) == NGramStartBlock(LinkInit(f))

NGramNext(f) ==
  LET f2 == [f EXCEPT !.current_ = @ + 1]
  IN IF f2.current_ = f.chain[f.block_].valid + 1
     THEN NGramStartBlock(LinkNext(f2))
     ELSE f2

(* -------------------------- AdjustCounts::Run ------------------------- *)
\* The driver's state as one value d: streams, lower_valid, chan, stats, ev,
\* and bos, the position of the backward walk.
Event(op, k, c) == [op |-> op, k |-> k, c |-> c]

\* ++*stream: publish the record under the cursor of stream k, move on to a
\* fresh slot.
Publish(d, k) ==
  [d EXCEPT !.chan[k] = Append(@, [eos |-> FALSE, w |-> d.streams[k].w,
                                   c |-> d.streams[k].c, raw |-> d.streams[k].raw]),
            !.streams[k] = NoRecord,
            !.ev = Append(@, Event("pub", k, d.streams[k].c))]

\* Mutant: the record is published without the call of stats.Add.
Output_PublishOnly(d, k) == Publish(d, k)

\* stats.Add(k - 1, count of stream k); ++*stream
Output(d, k) ==
  Publish([d EXCEPT !.stats = StatAdd(@, k, d.streams[k].c),
                    !.ev = Append(@, Event("add", k, d.streams[k].c))], k)

\* Mutant: ++(*lower_valid)->Count(), the highest open record is incremented.
Increment_AtLowerValid(d, same) ==
  IF same # 0
  THEN [d EXCEPT !.streams[d.lower_valid].c = @ + 1,
                 !.ev = Append(@, Event("inc", d.lower_valid,
                                        d.streams[d.lower_valid].c + 1))]
  ELSE d

\* Mutant: if (same > 1), the unigram is never incremented.
Increment_SkipUnigram(d, same) ==
  IF same > 1
  THEN [d EXCEPT !.streams[same].c = @ + 1,
                 !.ev = Append(@, Event("inc", same, d.streams[same].c + 1))]
  ELSE d

\* if (same) ++streams[same - 1]->Count();
Increment(d, same) ==
  IF same # 0
  THEN [d EXCEPT !.streams[same].c = @ + 1,
                 !.ev = Append(@, Event("inc", same, d.streams[same].c + 1))]
  ELSE d

\* Mutant: the changed records are put out from the lowest order upwards.
RECURSIVE OutputAscendingFrom(_, _)
OutputAscendingFrom(d, s) ==
  IF s <= d.lower_valid THEN OutputAscendingFrom(Output(d, s), s + 1) ELSE d

OutputChanged_Ascending(d, same) ==
  IF d.lower_valid >= same + 1
  THEN [OutputAscendingFrom(d, same + 1) EXCEPT !.lower_valid = same]
  ELSE d

\* Output all the valid ones that changed.
RECURSIVE OutputChanged(_, _)
OutputChanged(d, same) ==
  IF d.lower_valid >= same + 1
  THEN OutputChanged([Output(d, d.lower_valid) EXCEPT !.lower_valid = @ - 1], same)
  ELSE d

\* Mutant: std::copy(full->begin(), ...), the first words are copied.
Open_CopyFromBegin(d, fw, bos, count, raw) ==
  [d EXCEPT !.lower_valid = @ + 1,
            !.streams[d.lower_valid + 1] =
               [w |-> SubSeq(fw, 1, Len(fw) - bos + 1), c |-> count, raw |-> raw],
            !.ev = Append(@, Event(IF raw = 0 THEN "open" ELSE "bos",
                                   d.lower_valid + 1, count))]

\* Mutant: ++lower_valid is missing, the record is written past lower_valid.
Open_NoAdvance(d, fw, bos, count, raw) ==
  [d EXCEPT !.streams[d.lower_valid + 1] =
               [w |-> SubSeq(fw, bos, Len(fw)), c |-> count, raw |-> raw],
            !.ev = Append(@, Event(IF raw = 0 THEN "open" ELSE "bos",
                                   d.lower_valid + 1, count))]

\* Write a record of the words fw[bos..] and the given count to the next stream.
Open(d, fw, bos, count, raw) ==
  [d EXCEPT !.lower_valid = @ + 1,
            !.streams[d.lower_valid + 1] =
               [w |-> SubSeq(fw, bos, Len(fw)), c |-> count, raw |-> raw],
            !.ev = Append(@, Event(IF raw = 0 THEN "open" ELSE "bos",
                                   d.lower_valid + 1, count))]

\* Mutant: the walk does not look for the marker.
RECURSIVE MarkValid_IgnoreMarker(_, _, _)
MarkValid_IgnoreMarker(d, fw, bos) ==
  IF bos > 1
  THEN MarkValid_IgnoreMarker(Open(d, fw, bos, 1, 0), fw, bos - 1)
  ELSE [d EXCEPT !.bos = bos]

\* Initialize and mark as valid up to bos.
RECURSIVE MarkValid(_, _, _)
MarkValid(d, fw, bos) ==
  IF bos > 1 /\ fw[bos] # kBOS
  THEN MarkValid(Open(d, fw, bos, 1, 0), fw, bos - 1)
  ELSE [d EXCEPT !.bos = bos]

\* Mutant: the marker-led record is opened with count 1 like the others.
AtBos_CountOne(d, rec) ==
  IF d.bos # 1
  THEN Open(d, rec.w, d.bos, 1, rec.c)
  ELSE [d EXCEPT !.stats = StatAddFull(@, rec.c),
                 !.ev = Append(@, Event("addfull", Len(rec.w), rec.c))]

\* Mutant: the branch for a marker beyond the 0th word is missing.
AtBos_AlwaysAddFull(d, rec) ==
  [d EXCEPT !.stats = StatAddFull(@, rec.c),
            !.ev = Append(@, Event("addfull", Len(rec.w), rec.c))]

\* Now bos indicates where <s> is or is the 0th word of full.
AtBos(d, rec) ==
  IF d.bos # 1
  THEN Open(d, rec.w, d.bos, rec.c, rec.c)
  ELSE [d EXCEPT !.stats = StatAddFull(@, rec.c),
                 !.ev = Append(@, Event("addfull", Len(rec.w), rec.c))]

\* One pass of the loop body for the max-order record rec.
LoopBody(d, rec) ==
  LET different == FindDifference(rec.w, d.streams[d.lower_valid].w)
      same == Len(rec.w) - different
      d0 == [d EXCEPT !.ev = Append(@, Event("full", same, rec.c))]
  IN AtBos(MarkValid(OutputChanged(Increment(d0, same), same), rec.w, different), rec)

\* Mutant: s < lower_valid, the highest open record is not flushed.
RECURSIVE OutputValid_Strict(_, _)
OutputValid_Strict(d, s) ==
  IF s < d.lower_valid THEN OutputValid_Strict(Output(d, s), s + 1) ELSE d

\* Output everything valid.
RECURSIVE OutputValid(_, _)
OutputValid(d, s) ==
  IF s <= d.lower_valid THEN OutputValid(Output(d, s), s + 1) ELSE d

\* Poison everyone!  Except the N-grams which were already poisoned by the input.
RECURSIVE PoisonFrom(_, _)
PoisonFrom(d, s) ==
  IF s <= Len(d.streams)
  THEN PoisonFrom([d EXCEPT !.chan[s] = Append(@, Poisoned),
                            !.ev = Append(@, Event("poison", s, 0))], s + 1)
  ELSE d

Driver == [streams |-> streams, lower_valid |-> lower_valid, chan |-> chan,
           stats |-> stats, ev |-> ev, bos |-> 0]

SetDriver(d) ==
  /\ streams' = d.streams
  /\ lower_valid' = d.lower_valid
  /\ chan' = d.chan
  /\ stats' = d.stats
  /\ ev' = d.ev

Yield(f) == Append(yielded, [blk |-> f.block_, pos |-> f.current_, rec |-> Deref(f)])

(* ------------------------------- actions ------------------------------ *)
Init ==
  /\ order \in 1..MaxOrder
  /\ \E chain \in RunChains(order) \cup (IF order = 3 THEN LayoutChains ELSE {}) :
       /\ full = [chain |-> chain, block_ |-> 0, current_ |-> 0, copy_from_ |-> 0,
                  out |-> <<>>]
       /\ input = [i \in 1..Len(chain) |-> chain[i].mem]
  /\ streams = [k \in 1..(order - 1) |-> NoRecord]
  /\ lower_valid = 0
  /\ chan = [k \in 1..(order - 1) |-> <<>>]
  /\ stats = <<>>
  /\ counts_ = <<>>
  /\ pc = "start"
  /\ yielded = <<>>
  /\ ev = <<>>
  /\ args = <<>>
  /\ ret = 0

\* order == 1: only unigrams, just collect stats.
StartUnigrams ==
  /\ pc = "start"
  /\ order = 1
  /\ stats' = NewStats(order)
  /\ full' = NGramStreamInit(full)
  /\ pc' = "unigrams"
  /\ UNCHANGED <<args, ret, order, input, streams, lower_valid, chan, counts_, yielded, ev>>

UnigramAdd ==
  /\ pc = "unigrams"
  /\ LinkValid(full)
  /\ stats' = StatAddFull(stats, Deref(full).c)
  /\ ev' = Append(ev, Event("addfull", 1, Deref(full).c))
  /\ yielded' = Yield(full)
  /\ full' = NGramNext(full)
  /\ UNCHANGED <<args, ret, order, input, streams, lower_valid, chan, counts_, pc>>

UnigramsComplete ==
  /\ pc = "unigrams"
  /\ ~LinkValid(full)
  /\ counts_' = Complete(stats)
  /\ pc' = "done"
  /\ UNCHANGED <<args, ret, order, input, full, streams, lower_valid, chan, stats, yielded, ev>>

\* No n-gram at all, oddly.
StartEmpty ==
  /\ pc = "start"
  /\ order >= 2
  /\ ~LinkValid(CollapseStreamInit(full))
  /\ full' = CollapseStreamInit(full)
  /\ stats' = NewStats(order)
  /\ counts_' = Complete(NewStats(order))
  /\ pc' = "done"
  /\ UNCHANGED <<args, ret, order, input, streams, lower_valid, chan, yielded, ev>>

\* Initialization: unigrams are valid.
StartLoop ==
  /\ pc = "start"
  /\ order >= 2
  /\ LinkValid(CollapseStreamInit(full))
  /\ full' = CollapseStreamInit(full)
  /\ stats' = NewStats(order)
  /\ lower_valid' = 1
  /\ streams' = [streams EXCEPT ![1] =
                   [w |-> <<Deref(full').w[order]>>, c |-> 0, raw |-> 0]]
  /\ pc' = "loop"
  /\ UNCHANGED <<args, ret, order, input, chan, counts_, yielded, ev>>

\* for (; full; ++full) { ... }
LoopStep ==
  /\ pc = "loop"
  /\ LinkValid(full)
  /\ SetDriver(LoopBody(Driver, Deref(full)))
  /\ yielded' = Yield(full)
  /\ full' = CollapseNext(full)
  /\ pc' = IF LinkValid(full') THEN "loop" ELSE "flush"
  /\ UNCHANGED <<args, ret, order, input, counts_>>

FlushValid ==
  /\ pc = "flush"
  /\ SetDriver(OutputValid(Driver, 1))
  /\ pc' = "poison"
  /\ UNCHANGED <<args, ret, order, input, full, counts_, yielded>>

PoisonAndComplete ==
  /\ pc = "poison"
  /\ SetDriver(PoisonFrom(Driver, 1))
  /\ counts_' = Complete(stats)
  /\ pc' = "done"
  /\ UNCHANGED <<args, ret, order, input, full, yielded>>

Next ==
  \/ StartUnigrams
  \/ UnigramAdd
  \/ UnigramsComplete
  \/ StartEmpty
  \/ StartLoop
  \/ LoopStep
  \/ FlushValid
  \/ PoisonAndComplete

Spec == Init /\ [][Next]_vars

\* The runs with lower-order streams (order >= 2): everything after the
\* unigram-only return.
InitDriver == Init /\ order >= 2

NextDriver ==
  \/ StartEmpty
  \/ StartLoop
  \/ LoopStep
  \/ FlushValid
  \/ PoisonAndComplete

SpecDriver == InitDriver /\ [][NextDriver]_vars

(* ---------------- StatCollector and FindDifference alone --------------- *)
\* Most calls made on one StatCollector, and the highest count passed.
MaxCalls == 3
MaxCallCount == 6

\* Everything of a run that a direct call does not touch.
NoRun ==
  /\ input = <<>>
  /\ full = [chain |-> <<>>, block_ |-> 0, current_ |-> 0, copy_from_ |-> 0,
             out |-> <<>>]
  /\ streams = [k \in 1..(order - 1) |-> NoRecord]
  /\ lower_valid = 0
  /\ chan = [k \in 1..(order - 1) |-> <<>>]
  /\ counts_ = <<>>
  /\ yielded = <<>>

\* A fresh StatCollector of one or two orders.
InitStats ==
  /\ order \in 1..2
  /\ NoRun
  /\ stats = NewStats(order)
  /\ ev = <<>>
  /\ pc = "stats"
  /\ args = <<>>
  /\ ret = 0

CallAdd ==
  /\ pc = "stats"
  /\ Len(ev) < MaxCalls
  /\ \E k \in 1..order, count \in 1..MaxCallCount :
       /\ stats' = StatAdd(stats, k, count)
       /\ ev' = Append(ev, Event("add", k, count))
  /\ UNCHANGED <<order, input, full, streams, lower_valid, chan, counts_, pc,
                 yielded, args, ret>>

CallAddFull ==
  /\ pc = "stats"
  /\ Len(ev) < MaxCalls
  /\ \E count \in 1..MaxCallCount :
       /\ stats' = StatAddFull(stats, count)
       /\ ev' = Append(ev, Event("addfull", order, count))
  /\ UNCHANGED <<order, input, full, streams, lower_valid, chan, counts_, pc,
                 yielded, args, ret>>

NextStats == CallAdd \/ CallAddFull

SpecStats == InitStats /\ [][NextStats]_vars

\* A max-order record and a record of a lower order, any words.
InitFind ==
  /\ order \in 2..MaxOrder
  /\ NoRun
  /\ stats = NewStats(order)
  /\ ev = <<>>
  /\ pc = "find"
  /\ \E m \in 1..(MaxOrder - 1) :
       /\ m < order
       /\ args \in Tuples(WordIds, order) \X Tuples(WordIds, m)
  /\ ret = 0

CallFindDifference ==
  /\ pc = "find"
  /\ ret = 0
  /\ ret' = FindDifference(args[1], args[2])
  /\ UNCHANGED <<order, input, full, streams, lower_valid, chan, stats, counts_,
                 pc, yielded, ev, args>>

NextFind == CallFindDifference

SpecFind == InitFind /\ [][NextFind]_vars

(* ------------------------- vocabulary of claims ----------------------- *)
FlatInput == Flatten(input)

\* The last k words of w.
Suffix(w, k) == SubSeq(w, Len(w) - k + 1, Len(w))

\* Position 1 or later in the source's numbering is position 2 or later here.
HasInteriorMarker(w) == \E p \in 2..Len(w) : w[p] = kBOS

InputDistinct ==
  \A i, j \in DOMAIN FlatInput : i # j => FlatInput[i].w # FlatInput[j].w

NoInteriorMarkers == \A i \in DOMAIN FlatInput : ~HasInteriorMarker(FlatInput[i].w)

\* The distinct k-word suffixes of the input records.
InputSuffixes(k) == {Suffix(FlatInput[j].w, k) : j \in DOMAIN FlatInput}

\* The distinct (k+1)-word suffixes of input records that end in the words sw.
Contexts(sw) ==
  {Suffix(FlatInput[j].w, Len(sw) + 1)
   : j \in {i \in DOMAIN FlatInput : Suffix(FlatInput[i].w, Len(sw)) = sw}}

\* Indices of the records published on the lower-order channel k.
Published(k) == {i \in DOMAIN chan[k] : ~chan[k][i].eos}

EosCount(events) == Cardinality({i \in DOMAIN events : events[i].eos})

(* -------------------------------- claims ------------------------------ *)
\* C1: with distinct, suffix-sorted input records that have no marker at
\* position 1 or later (N >= 2), every record published on a lower-order
\* channel carries the number of distinct contexts (one word longer suffixes
\* of input records) its words occur in.
C1_AdjustedCountIsDistinctContexts ==
  (order >= 2 /\ InputDistinct /\ NoInteriorMarkers) =>
    \A k \in 1..(order - 1) : \A i \in Published(k) :
      chan[k][i].c = Cardinality(Contexts(chan[k][i].w))

\* An order-2 record of an order-3 run is published with three contexts.
C1_Witness ==
  /\ order = 3 /\ InputDistinct /\ NoInteriorMarkers
  /\ \E i \in Published(2) :
       chan[2][i].c = 3 /\ Cardinality(Contexts(chan[2][i].w)) = 3

\* C2: with the same inputs, the total reported for each order k < N is the
\* number of distinct k-word suffixes of the input, each published exactly
\* once on channel k, and the total of order N is the number of input records.
C2_TotalsAreDistinctSuffixes ==
  (pc = "done" /\ order >= 2 /\ InputDistinct /\ NoInteriorMarkers) =>
    /\ counts_[order] = Len(FlatInput)
    /\ \A k \in 1..(order - 1) :
         /\ counts_[k] = Cardinality(InputSuffixes(k))
         /\ {chan[k][i].w : i \in Published(k)} = InputSuffixes(k)
         /\ Cardinality(Published(k)) = Cardinality(InputSuffixes(k))

\* A finished order-3 run of three records with two distinct 2-word suffixes.
C2_Witness ==
  /\ pc = "done" /\ order = 3 /\ InputDistinct /\ NoInteriorMarkers
  /\ Len(FlatInput) = 3
  /\ counts_ = <<1, 2, 3>>

\* C3: in every run, end-of-data is signalled exactly once on each order's
\* channel 1..N, after the last record published on that channel.
C3_EndOfDataOnceOnEveryChannel ==
  pc = "done" =>
    /\ EosCount(full.out) = 1
    /\ full.out[Len(full.out)].eos
    /\ \A k \in 1..(order - 1) :
         /\ EosCount(chan[k]) = 1
         /\ chan[k][Len(chan[k])].eos

\* Blocks of the max-order chain the cursor has passed and handed on.
Traversed == {j \in DOMAIN input : order >= 2 /\ j < full.block_}

\* The valid region of block j as it stands in memory.
ValidRegion(j) == SubSeq(full.chain[j].mem, 1, full.chain[j].valid)

Occurrences(s, r) == Cardinality({i \in DOMAIN s : s[i] = r})

YieldsIn(j) == {i \in DOMAIN yielded : yielded[i].blk = j}

\* C4 as stated: no record read through the compaction cursor has the marker
\* at position 1 or later.
C4_NeverYieldsMarkerRecord ==
  order >= 2 => \A i \in DOMAIN yielded : ~HasInteriorMarker(yielded[i].rec.w)

\* C4 amended: the cursor yields marker records too, but leaves no record with
\* the marker at position 1 in the valid region of a block it has traversed.
C4_NoMarkerRecordLeftInBlock ==
  \A j \in Traversed : \A i \in DOMAIN ValidRegion(j) : ValidRegion(j)[i].w[2] # kBOS

\* A traversed block that held a marker record, which was read, and a survivor.
C4_Witness ==
  \E j \in Traversed :
    /\ \E i \in YieldsIn(j) : yielded[i].rec.w[2] = kBOS
    /\ Len(ValidRegion(j)) >= 1
    /\ Len(ValidRegion(j)) < Len(input[j])

C6_SurvivorsKept ==
  \A j \in Traversed :
    LET m == Cardinality({i \in DOMAIN input[j] : input[j][i].w[2] = kBOS})
    IN /\ full.chain[j].valid = Len(input[j]) - m
       /\ \A i \in DOMAIN input[j] :
            Occurrences(ValidRegion(j), input[j][i]) =
              IF input[j][i].w[2] = kBOS THEN 0
              ELSE Occurrences(input[j], input[j][i])

\* A traversed block whose survivors were moved: a marker record in front of
\* two different survivors.
C6_Witness ==
  \E j \in Traversed :
    /\ Len(input[j]) = 3
    /\ input[j][1].w[2] = kBOS
    /\ input[j][2] # input[j][3]
    /\ ValidRegion(j) = <<input[j][3], input[j][2]>>

\* C7 as stated: a record opened at a marker is published with the raw count
\* of the max-order record it was opened for.
C7_MarkerLedKeepsRawCount ==
  \A k \in 1..(order - 1) : \A i \in Published(k) :
    chan[k][i].raw # 0 => chan[k][i].c = chan[k][i].raw

\* C7 amended: it is, provided no other input record ends in the words of
\* that marker-led record.
C7_MarkerLedKeepsRawCountIfUnique ==
  \A k \in 1..(order - 1) : \A i \in Published(k) :
    (/\ chan[k][i].raw # 0
     /\ Cardinality({j \in DOMAIN FlatInput :
                       Suffix(FlatInput[j].w, k) = chan[k][i].w}) = 1)
    => chan[k][i].c = chan[k][i].raw

\* A marker-led record with raw count 5 published while the loop still runs.
C7_Witness ==
  /\ pc = "loop"
  /\ \E k \in 1..(order - 1) : \E i \in Published(k) :
       /\ chan[k][i].raw = 5 /\ chan[k][i].c = 5 /\ chan[k][i].w[1] = kBOS
       /\ Cardinality({j \in DOMAIN FlatInput :
                         Suffix(FlatInput[j].w, k) = chan[k][i].w}) = 1

\* The loop body has just run for the record yielded last.
JustProcessed == order >= 2 /\ pc \in {"loop", "flush"} /\ Len(yielded) >= 1

LastYielded == yielded[Len(yielded)].rec

LastFullIndex ==
  CHOOSE i \in DOMAIN ev :
    ev[i].op = "full" /\ \A j \in DOMAIN ev : j > i => ev[j].op # "full"

\* The calls of AddFull and the writes of a marker-led record for that record.
LastOutcomes ==
  {i \in DOMAIN ev : i > LastFullIndex /\ ev[i].op \in {"addfull", "bos"}}

\* C8 as stated: AddFull is called with the record's raw count iff the record
\* has no marker at position 1 or later; otherwise the raw count goes to the
\* marker-led lower-order record; never both.
C8_AddFullIffNoInteriorMarker ==
  JustProcessed =>
    /\ Cardinality(LastOutcomes) = 1
    /\ ev[Len(ev)].c = LastYielded.c
    /\ ev[Len(ev)].op = IF HasInteriorMarker(LastYielded.w) THEN "bos" ELSE "addfull"

\* C8 amended: the markers that count are those at positions 1..N-1-same, the
\* positions outside the suffix shared with the open lower-order record.
C8_AddFullIffNoMarkerOutsideShared ==
  JustProcessed =>
    LET same == ev[LastFullIndex].k
        marked == \E p \in 2..(order - same) : LastYielded.w[p] = kBOS
    IN /\ Cardinality(LastOutcomes) = 1
       /\ ev[Len(ev)].c = LastYielded.c
       /\ ev[Len(ev)].op = IF marked THEN "bos" ELSE "addfull"
       /\ marked => /\ streams[lower_valid].c = LastYielded.c
                    /\ streams[lower_valid].w[1] = kBOS
                    /\ streams[lower_valid].w = Suffix(LastYielded.w, lower_valid)

\* A record with a marker below its shared suffix gave its raw count 5 to the
\* marker-led record, after an earlier record went to AddFull.
C8_Witness ==
  /\ JustProcessed
  /\ Len(yielded) >= 2
  /\ ev[Len(ev)].op = "bos" /\ ev[Len(ev)].c = 5
  /\ \E i \in DOMAIN ev : ev[i].op = "addfull"

\* The single record of a one-record max-order stream.
OnlyRecord == FlatInput[1]

\* C9 as stated: one max-order record gives exactly one record on each order
\* 1..N-1, with count 1, or the raw count if it begins at the marker.
C9_OneRecordPerOrder ==
  (pc = "done" /\ order >= 2 /\ Len(FlatInput) = 1) =>
    \A k \in 1..(order - 1) :
      /\ Cardinality(Published(k)) = 1
      /\ \A i \in Published(k) :
           chan[k][i].c = IF chan[k][i].w[1] = kBOS THEN OnlyRecord.c ELSE 1

\* C9 amended: with p the highest position in 1..N-2 that holds the marker,
\* one record is published on each order 1..N-p and none above; the order N-p
\* record, which begins at that marker, carries the raw count and the others
\* count 1.  Without such a marker every order 1..N-1 gets one record, count 1.
C9_OneRecordUpToMarker ==
  (pc = "done" /\ order >= 2 /\ Len(FlatInput) = 1) =>
    LET M == {p \in 2..(order - 1) : OnlyRecord.w[p] = kBOS}
        top == IF M = {} THEN order - 1
               ELSE order + 1 - (CHOOSE p \in M : \A q \in M : q <= p)
    IN \A k \in 1..(order - 1) :
         IF k <= top
         THEN /\ Cardinality(Published(k)) = 1
              /\ \A i \in Published(k) :
                   /\ chan[k][i].w = Suffix(OnlyRecord.w, k)
                   /\ chan[k][i].c = IF M # {} /\ k = top THEN OnlyRecord.c ELSE 1
         ELSE Published(k) = {}

\* An order-4 run of one record with the marker at position 2 and raw count 5.
C9_Witness ==
  /\ pc = "done" /\ order = 4 /\ Len(FlatInput) = 1
  /\ OnlyRecord.w[3] = kBOS /\ OnlyRecord.c = 5
  /\ Published(3) = {}
  /\ \E i \in Published(2) : chan[2][i].c = 5

\* C10: processing one max-order record adds exactly 1 to the open record of
\* order same (to none if same = 0), leaves the open records of lower order as
\* they are, and publishes the open records of higher order with the counts
\* they had.
C10_OnlySameIncremented ==
  [][(pc = "loop" /\ order >= 2) =>
       LET same == order - FindDifference(Deref(full).w, streams[lower_valid].w)
       IN \A k \in 1..lower_valid :
            /\ k < same => streams'[k] = streams[k]
            /\ k = same => /\ streams'[k].w = streams[k].w
                           /\ streams'[k].c = streams[k].c + 1
            /\ k > same => /\ Len(chan'[k]) = Len(chan[k]) + 1
                           /\ chan'[k][Len(chan'[k])].c = streams[k].c
                           /\ chan'[k][Len(chan'[k])].w = streams[k].w]_vars

\* Two adjacent equal max-order records of order 3 have been processed: the
\* second one incremented the open order-2 record and nothing else.
C10_Witness ==
  /\ JustProcessed /\ order = 3 /\ Len(yielded) >= 2
  /\ yielded[Len(yielded)].rec.w = yielded[Len(yielded) - 1].rec.w
  /\ ev[LastFullIndex].k = 2
  /\ streams[2].c >= 2
  /\ streams[1].c = 1

\* C11: with an empty max-order stream and N > 1, Run reports a total of zero
\* for every order, publishes no record on a lower-order channel and writes
\* nothing into a lower-order record.
C11_EmptyStreamAllZero ==
  (pc = "done" /\ order >= 2 /\ Len(FlatInput) = 0) =>
    /\ counts_ = [k \in 1..order |-> 0]
    /\ \A k \in 1..(order - 1) : Published(k) = {} /\ streams[k] = NoRecord
    /\ lower_valid = 0
    /\ ev = <<>>

\* A finished order-3 run over two empty blocks.
C11_Witness ==
  /\ pc = "done" /\ order = 3
  /\ Len(input) = 2 /\ Len(FlatInput) = 0
  /\ counts_ = <<0, 0, 0>>

\* Calls of Add and AddFull made for order k.
Calls(k) == {i \in DOMAIN ev : ev[i].op \in {"add", "addfull"} /\ ev[i].k = k}

\* C12: after any calls of Add and AddFull with counts >= 1, each order's
\* total is its number of calls, bucket c holds its calls with count c (c in
\* 1..4), so the buckets sum to at most the total and the difference is the
\* number of its calls with count >= 5.
C12_BucketsWithinTotal ==
  \A k \in DOMAIN stats :
    /\ stats[k].count = Cardinality(Calls(k))
    /\ \A c \in 1..4 : stats[k].n[c] = Cardinality({i \in Calls(k) : ev[i].c = c})
    /\ SeqSum(stats[k].n) <= stats[k].count
    /\ stats[k].count - SeqSum(stats[k].n) = Cardinality({i \in Calls(k) : ev[i].c >= 5})
    /\ stats[k].oob = 0

\* Three calls for one order: counts 1 and 4 and one count of 5 or more.
C12_Witness ==
  \E k \in DOMAIN stats :
    /\ stats[k].count = 3
    /\ stats[k].n = <<1, 0, 0, 1>>
    /\ \E i \in Calls(k) : ev[i].c >= 5

\* The records of the direct call, and the number of trailing words the
\* returned position says they share.
FindFull == args[1]
FindLower == args[2]
FindSame == Len(FindFull) - ret

\* Lengths of the common suffixes of the two records, within the lower one.
CommonSuffixes ==
  {j \in 0..Len(FindLower) : Suffix(FindFull, j) = Suffix(FindLower, j)}

\* C13: FindDifference(full, lower) returns the position p for which
\* same = (position of full's last word) - p is the length of the longest
\* common suffix of the two records, capped at lower's order: the last same
\* words agree, and either same is lower's order or the word of full at p
\* differs from the corresponding word of lower.
C13_SameIsLongestCommonSuffix ==
  ret # 0 =>
    /\ FindSame \in CommonSuffixes
    /\ \A j \in CommonSuffixes : j <= FindSame
    /\ \/ FindSame = Len(FindLower)
       \/ FindFull[ret] # FindLower[Len(FindLower) - FindSame]

\* A call that stops at a difference inside the lower record after a match.
C13_Witness ==
  /\ ret # 0
  /\ Len(FindFull) = 4 /\ Len(FindLower) = 3
  /\ FindSame = 2
  /\ FindFull[ret] # FindLower[1]

\* The two records agree over the whole of the lower record.
FullMatch == ret # 0 /\ Suffix(FindFull, Len(FindLower)) = FindLower

\* C14 as stated: on a match over the whole lower record, of any order
\* 1..N-1, FindDifference returns the position of full's first word.
C14_FullMatchReturnsFirstWord ==
  FullMatch => ret = 1

\* C14: on a match over the whole lower record, of order m, FindDifference
\* returns the position of the word of full just before its last m words; it
\* is full's first word exactly when m = N-1.
C14_FullMatchReturnsWordBeforeSuffix ==
  FullMatch =>
    /\ ret = Len(FindFull) - Len(FindLower)
    /\ (ret = 1) <=> (Len(FindLower) = Len(FindFull) - 1)

\* A full match over a lower record of order 2 against a record of order 4.
C14_Witness ==
  /\ FullMatch
  /\ Len(FindFull) = 4 /\ Len(FindLower) = 2
  /\ ret = 2

\* Orders of the lower-order streams that hold an open record.
OpenOrders == {k \in DOMAIN streams : streams[k] # NoRecord}

\* C15: in a run of order N >= 2, after each max-order record the open
\* lower-order records are exactly those of orders 1..lower_valid, and
\* 1 <= lower_valid <= N-1.
C15_OpenRecordsArePrefix ==
  JustProcessed =>
    /\ lower_valid \in 1..(order - 1)
    /\ OpenOrders = 1..lower_valid
    /\ \A k \in OpenOrders : Len(streams[k].w) = k

\* After the second record of an order-4 run only orders 1 and 2 are open.
C15_Witness ==
  /\ JustProcessed
  /\ order = 4
  /\ Len(yielded) = 2
  /\ lower_valid = 2
  /\ OpenOrders = {1, 2}

\* What the loop body logged for the record it has just processed.
StepEvents == SubSeq(ev', Len(ev) + 1, Len(ev'))

StepSame == StepEvents[1].k

\* Positions in s of the events of the given kinds.
EventsOf(s, ops) == {i \in DOMAIN s : s[i].op \in ops}

\* The orders of the events of the given kinds, in the order they happened.
RECURSIVE OrdersFrom(_, _, _)
OrdersFrom(s, ops, i) ==
  IF i > Len(s) THEN <<>>
  ELSE IF s[i].op \in ops THEN <<s[i].k>> \o OrdersFrom(s, ops, i + 1)
  ELSE OrdersFrom(s, ops, i + 1)

\* C16: for each max-order record the driver finalizes (stats.Add, then
\* publish) exactly the open records of order same+1..lower_valid, highest
\* order first, all of them before it opens any record; open records of order
\* <= same stay open.
C16_FinalizesAboveSameDescending ==
  [][(pc = "loop" /\ ev' # ev) =>
       LET fin == lower_valid - StepSame
       IN /\ fin >= 0
          /\ OrdersFrom(StepEvents, {"add"}, 1) = [j \in 1..fin |-> lower_valid - j + 1]
          /\ OrdersFrom(StepEvents, {"pub"}, 1) = [j \in 1..fin |-> lower_valid - j + 1]
          /\ \A i \in EventsOf(StepEvents, {"add", "pub"}),
                j \in EventsOf(StepEvents, {"open", "bos"}) : i < j
          /\ \A k \in 1..StepSame : streams'[k] # NoRecord /\ streams'[k].w = streams[k].w
     ]_vars

\* The events logged since the last max-order record was read.
LastEvents == SubSeq(ev, LastFullIndex, Len(ev))

\* A record for which two open records were finalized and one was opened,
\* while a lower one stayed open.
C16_Witness ==
  /\ JustProcessed
  /\ LastEvents[1].k >= 1
  /\ Cardinality(EventsOf(LastEvents, {"add"})) >= 2
  /\ EventsOf(LastEvents, {"open", "bos"}) # {}

\* Number of events of the given kinds logged for order k.
CountOf(ops, k) ==
  Cardinality({i \in DOMAIN ev : ev[i].op \in ops /\ ev[i].k = k})

\* The unigram opened before the loop is not logged: it is there as soon as
\* the loop has been entered.
InitialOpen == IF order >= 2 /\ Len(yielded) >= 1 THEN {1} ELSE {}

\* Replay of the log from event i on: open is the set of orders with an open
\* record, pending the order whose statistics update awaits its publication
\* (0: none). FALSE in ok as soon as a record is opened over an open one,
\* updated or published without being open, or published without its update.
RECURSIVE Replay(_, _, _)
Replay(i, open, pending) ==
  IF i > Len(ev) THEN [ok |-> pending = 0, open |-> open]
  ELSE LET e == ev[i]
       IN IF e.op \in {"open", "bos"}
          THEN IF e.k \in open \/ pending # 0 THEN [ok |-> FALSE, open |-> open]
               ELSE Replay(i + 1, open \cup {e.k}, 0)
          ELSE IF e.op = "add"
          THEN IF e.k \notin open \/ pending # 0 THEN [ok |-> FALSE, open |-> open]
               ELSE Replay(i + 1, open, e.k)
          ELSE IF e.op = "pub"
          THEN IF pending # e.k THEN [ok |-> FALSE, open |-> open]
               ELSE Replay(i + 1, open \ {e.k}, 0)
          ELSE Replay(i + 1, open, pending)

\* C17: at the end of a run of order N >= 2, the log of the whole run shows
\* every publication of order k < N right after one statistics update for k,
\* no record published that was not opened and every opened record finalized
\* exactly once; no record is left open, and the total reported for k is the
\* number of records published on the channel of k.
C17_TotalsArePublications ==
  (order >= 2 /\ pc = "done") =>
    /\ Replay(1, InitialOpen, 0) = [ok |-> TRUE, open |-> {}]
    /\ OpenOrders = {}
    /\ \A k \in 1..(order - 1) :
         /\ CountOf({"pub"}, k) = Cardinality(Published(k))
         /\ \A i \in Published(k) : Len(chan[k][i].w) = k
         /\ counts_[k] = Cardinality(Published(k))

\* The end of an order-3 run that published several records of each lower
\* order, some of them in the loop.
C17_Witness ==
  /\ pc = "done" /\ order = 3
  /\ counts_[1] >= 2 /\ counts_[2] >= 2
  /\ Cardinality(Published(2)) = counts_[2]
  /\ \E i, j \in DOMAIN ev : i < j /\ ev[i].op = "pub" /\ ev[j].op = "full"

\* C18: after each max-order record, every open record of order k holds the
\* last k words of that max-order record.
C18_OpenRecordsAreSuffixes ==
  JustProcessed =>
    \A k \in 1..lower_valid : streams[k].w = Suffix(LastYielded.w, k)

\* After the second record of an order-4 run, which shares only its last word
\* with the first, three suffixes of it are open.
C18_Witness ==
  /\ JustProcessed
  /\ order = 4 /\ Len(yielded) = 2 /\ lower_valid = 3
  /\ LastEvents[1].k = 1
  /\ streams[3].w = Suffix(LastYielded.w, 3)
  /\ streams[3].w # Suffix(yielded[1].rec.w, 3)

\* C19: with every raw count >= 1, Add and AddFull are never called with
\* count 0, in a run of any order, and no bucket outside n[0..3] is written.
C19_NeverCountZero ==
  (\A j \in DOMAIN input : \A p \in DOMAIN input[j] : input[j][p].c >= 1) =>
    /\ \A k \in DOMAIN stats : stats[k].oob = 0
    /\ pc = "done" =>
         \A i \in DOMAIN ev : ev[i].op \in {"add", "addfull"} => ev[i].c >= 1

\* The unigram opened with count 0 before the loop has been finalized, with
\* count 1.
C19_Witness ==
  /\ order >= 2
  /\ \E i \in DOMAIN ev :
       /\ ev[i].op = "add" /\ ev[i].k = 1 /\ ev[i].c = 1
       /\ \A j \in 1..i : ~(ev[j].op \in {"open", "bos"} /\ ev[j].k = 1)

\* The cursor stands on a record of a block.
OnRecord == order >= 2 /\ full.block_ >= 1 /\ LinkValid(full)

\* Every record read through the cursor was the original of its position, the
\* cursor and copy_from_ stay within the block (copy_from_ at most one record
\* below its base), the block's records from the cursor on are untouched, and
\* no block has grown.
CursorSafe ==
  order >= 2 =>
    /\ \A i \in DOMAIN yielded :
         yielded[i].rec = input[yielded[i].blk][yielded[i].pos]
    /\ \A j \in DOMAIN full.chain :
         /\ Len(full.chain[j].mem) = Len(input[j])
         /\ full.chain[j].valid \in 0..Len(input[j])
    /\ OnRecord =>
         /\ full.current_ \in 1..Len(input[full.block_])
         /\ full.copy_from_ \in 0..Len(input[full.block_])
         /\ \A p \in full.current_..Len(input[full.block_]) :
              full.chain[full.block_].mem[p] = input[full.block_][p]

\* One ++full writes at most the record it leaves, and only when copy_from_
\* is strictly after it, with the original record at copy_from_.
OverwriteOnlyLeft ==
  (pc = "loop" /\ full' # full) =>
    /\ \A j \in DOMAIN full.chain : \A p \in DOMAIN full.chain[j].mem :
         (j # full.block_ \/ p # full.current_) =>
           full'.chain[j].mem[p] = full.chain[j].mem[p]
    /\ full'.chain[full.block_].mem[full.current_] # Deref(full) =>
         /\ Deref(full).w[2] = kBOS
         /\ full.current_ < full.copy_from_
         /\ full.copy_from_ <= Len(input[full.block_])
         /\ full'.chain[full.block_].mem[full.current_]
              = input[full.block_][full.copy_from_]

\* C20: the compaction cursor overwrites only the record it is leaving, from
\* a strictly later record of the block's valid region, so every record read
\* through it is the original of its position and nothing outside the block's
\* original valid region is read or written.
C20_CursorShowsOriginals ==
  []CursorSafe /\ [][OverwriteOnlyLeft]_vars

\* A record of a block has been overwritten and a later record of the same
\* block has been read since.
C20_Witness ==
  /\ order >= 2
  /\ \E i \in DOMAIN yielded :
       \E p \in 1..(yielded[i].pos - 1) :
         /\ full.chain[yielded[i].blk].mem[p] # input[yielded[i].blk][p]
         /\ yielded[i].rec = input[yielded[i].blk][yielded[i].pos]

====
